---- MODULE Spec2Model ----
(***************************************************************************)
(* vector-memory: MemoryStore.add (fact extraction, candidate retrieval,   *)
(* temporary-identifier remapping, action application) over the two        *)
(* VectorStore implementations, RxDbVector and TbVectorStore.              *)
(***************************************************************************)
EXTENDS Integers, Sequences, FiniteSets, TLC

\* ---------------------------------------------------------------- bounds
\* add() calls made by the caller in one behaviour
MaxCalls == 2
\* longest fact list the Extraction Service returns
MaxFacts == 2
\* longest action list the Decision Service returns
MaxActions == 2
\* the same two, for the add() call made on a store that already holds records
MaxCallsLoaded == 1
MaxActionsLoaded == 3
\* largest value Date.now() takes
MaxClock == 1
\* most actions the Decision Service returns when it may use any text
MaxActionsImported == 2
\* most records in the store that search() and list() are called on
MaxStored == 6
\* largest limit list() is called with, and most pages a caller fetches
MaxLimit == 2
MaxPages == 3
\* largest offset MemoryStore.list() is called with
MaxOffset == 2
\* most identifiers a direct client of the store has had issued and most
\* revisions of a record it updates; one write less may be in flight
MaxDirect == 2
\* App: most refreshMemories() chains started (the mount effect, and the
\* refreshes after an add), the time in ms by which the store's
\* initialisation has completed if it completes, and the step of the clock
MaxChains == 2
MaxInitTime == 1000
TickMs == 250

\* ------------------------------------------------------- program constants
\* RxDbVector.search: const { topK = 5, threshold = 1 }
topK == 5
threshold == 1
\* TbVectorStore.search(embedding, topK = 10)
tbTopK == 10
\* App.refreshMemories: setTimeout(() => refreshMemories(), 500)
retryDelay == 500

\* --------------------------------------------------------------- values
\* UpdateMemoryAction
ADD == "ADD"
UPDATE == "UPDATE"
DELETE == "DELETE"
NONE == "NONE"
UpdateMemoryAction == {ADD, UPDATE, DELETE, NONE}

\* Texts the Extraction Service may return as facts, and texts the Decision
\* Service may put in an action: "a" is shared, "c" is never a fact.
FactTexts == {"a", "b"}
ActionTexts == {"a", "c"}
Texts == FactTexts \cup ActionTexts

\* Embedder.embed: one vector per text (dimension 1); "a" and "b" lie within
\* the search threshold of each other, "c" lies outside it.
embed(text) == CASE text = "a" -> <<0>>
                 [] text = "b" -> <<1>>
                 [] OTHER -> <<3>>

\* The value of tempIdMappings[key] for a key the map does not hold, and of
\* a record's updatedAt before any update.
undefined == 0 - 1

\* metadata is a string-keyed map, held as a set of <<key, value>> pairs
EmptyMetadata == {}

\* String(i) for the array indices forEach passes
DigitStrings == <<"0", "1", "2", "3", "4", "5", "6", "7", "8", "9">>
RECURSIVE String(_)
String(i) == IF i < 10 THEN DigitStrings[i + 1]
             ELSE String(i \div 10) \o DigitStrings[(i % 10) + 1]

\* Identifiers the Decision Service may put in action.id: temporary ids that
\* can be issued, and "7", which never is within the bounds above.
ActionIds == {"0", "1", "7"}

Actions == [id : ActionIds, text : ActionTexts, action : UpdateMemoryAction]

SeqsUpTo(S, n) == UNION {[1..k -> S] : k \in 0..n}

FactLists == SeqsUpTo(FactTexts, MaxFacts)
ActionLists == SeqsUpTo(Actions, MaxActions)
ActionListsLoaded == SeqsUpTo(Actions, MaxActionsLoaded)

\* crypto.randomUUID(): an identifier never returned before. Identifiers are
\* numbered in their string order (the primary-key order of the collection);
\* a new one may sort before or behind those already issued.
randomUUID(used) == (1..(Cardinality(used) + 2)) \ used

Min(a, b) == IF a < b THEN a ELSE b
Abs(x) == IF x < 0 THEN 0 - x ELSE x

Range(s) == {s[i] : i \in DOMAIN s}

\* list() called without an argument
NoProps == [p \in {} |-> p]

\* the refreshMemories() chains of the App
Chains == 1..MaxChains

VARIABLES
  kind,                \* "rxdb" | "tb": the VectorStore behind the MemoryStore
  initialized,         \* #vector / #store has been set by initialize()
  store,               \* id -> stored record
  pendingWrites,       \* RxDbVector.update: record.update() calls not yet settled
  issued,              \* identifiers crypto.randomUUID() has returned
  now,                 \* last value of Date.now()
  calls,               \* add() calls started
  pc,                  \* position of the running add() call
  raisedAt,            \* the position add() raised from
  error,               \* the message of the Error add() raised
  newRetrievedFacts,
  factIdx,
  newMessageEmbeddings,
  existingMemories,    \* per fact, what vector.search returned for it
  retrievedOldMemory,
  tempIdMappings,
  actions,             \* newMemoriesWithActions.actions
  actionIdx,
  returnedMemories,
  embedCalls,          \* the texts embedder.embed has embedded for this call
  searchQuery,         \* the embedding MemoryStore.search() last looked for
  searchResults,       \* what that search returned
  listLimit,           \* the limit of the running pagination
  listPages,           \* the pages list() has returned to it, in order
  opCalled,            \* the store operation a client last called directly
  opError,             \* the message of the Error it failed with, "" if none
  listProps,           \* the argument of the last MemoryStore.list(props) call
  uiNow,               \* App: the time in ms since the App was mounted
  refreshPc,           \* App: per refreshMemories() chain, where it stands
  timers,              \* App: per chain, the due times of its pending setTimeouts
  memories             \* App: the memories state (what setMemories last set)

storeVars == <<kind, initialized, store, pendingWrites, issued, now>>
callVars == <<calls, pc, raisedAt, error, newRetrievedFacts, factIdx,
              newMessageEmbeddings, existingMemories, retrievedOldMemory,
              tempIdMappings, actions, actionIdx, returnedMemories,
              embedCalls>>
queryVars == <<searchQuery, searchResults, listLimit, listPages>>
uiVars == <<uiNow, refreshPc, timers, memories>>
clientVars == <<opCalled, opError, listProps, uiVars>>
vars == <<storeVars, callVars, queryVars, clientVars>>

\* ------------------------------------------------------------- helpers
RECURSIVE SetToSortedSeq(_)
SetToSortedSeq(S) ==
  IF S = {} THEN <<>>
  ELSE LET m == CHOOSE x \in S : \A y \in S : x <= y
       IN <<m>> \o SetToSortedSeq(S \ {m})

\* the array left in the order it has
NotReversed(s) == s

\* Array.prototype.toReversed()
Reverse(s) == [i \in 1..Len(s) |-> s[Len(s) + 1 - i]]

\* Array.prototype.slice(0, n)
Slice(s, n) == SubSeq(s, 1, Min(n, Len(s)))

\* Array.prototype.sort(compare), with compared[i][j] = compare(s[i], s[j]):
\* stable, so an element goes behind those that compare smaller and behind
\* the equal ones that stood before it
Sort(s, compared) ==
  LET rank(i) == 1 + Cardinality({j \in 1..Len(s) :
                       \/ compared[j][i] < 0
                       \/ compared[j][i] = 0 /\ j < i})
  IN [r \in 1..Len(s) |-> s[CHOOSE i \in 1..Len(s) : rank(i) = r]]

EmptyStore == [x \in {} |-> x]
Put(s, id, rec) == [x \in (DOMAIN s) \cup {id} |-> IF x = id THEN rec ELSE s[x]]
Remove(s, id) == [x \in (DOMAIN s) \ {id} |-> s[x]]

\* ------------------------------------------------------------ RxDbVector
\* RxDocument.toJSON(): the document's fields without the revision
toJSON(doc) ==
  [id |-> doc.id, content |-> doc.content, embedding |-> doc.embedding,
   metadata |-> doc.metadata, createdAt |-> doc.createdAt,
   updatedAt |-> doc.updatedAt]

\* collection.find().exec(): every document, in primary-key order
RxFind(s) == LET ids == SetToSortedSeq(DOMAIN s)
             IN [i \in 1..Len(ids) |-> s[ids[i]]]

\* collection.findOne({selector: {id}}).exec(): the document with that
\* primary key, none for a key no document has (undefined included)
RxFindOneById(s, id) == IF id \in DOMAIN s THEN {s[id]} ELSE {}

\* RxDbVector.get: findOne(id); findOne(undefined) is the query without a
\* selector and yields the first document of the collection
RxDbVector_get(s, id) ==
  IF id = undefined
  THEN IF DOMAIN s = {} THEN {} ELSE {toJSON(RxFind(s)[1])}
  ELSE {toJSON(d) : d \in RxFindOneById(s, id)}

\* RxDbVector.add for one entry: id from crypto.randomUUID(), createdAt from
\* Date.now(), metadata defaulted to {}
RxDbVector_add(s, entry, uuid, t) ==
  Put(s, uuid,
      [id |-> uuid, content |-> entry.content, embedding |-> entry.embedding,
       metadata |-> IF "metadata" \in DOMAIN entry THEN entry.metadata
                    ELSE EmptyMetadata,
       createdAt |-> t, updatedAt |-> undefined, rev |-> 0])

\* RxDbVector.update: the $set that record.update() is called with, and the
\* revision of the document it was read from; the call is not awaited
RxDbVector_update(doc, embedding, t) ==
  [id |-> doc.id, rev |-> doc.rev, content |-> embedding.content,
   embedding |-> embedding.embedding, metadata |-> embedding.metadata,
   updatedAt |-> t]

\* a write that puts a new document in the place of the old one
RxSettleReplacing(s, w) ==
  IF w.id \in DOMAIN s /\ s[w.id].rev = w.rev
  THEN [s EXCEPT ![w.id] =
          [id |-> w.id, content |-> w.content, embedding |-> w.embedding,
           metadata |-> w.metadata, createdAt |-> w.updatedAt,
           updatedAt |-> w.updatedAt, rev |-> @.rev + 1]]
  ELSE s

\* a write that leaves the metadata of the document as it is
RxSettleKeepingMetadata(s, w) ==
  IF w.id \in DOMAIN s /\ s[w.id].rev = w.rev
  THEN [s EXCEPT ![w.id] =
          [@ EXCEPT !.content = w.content, !.embedding = w.embedding,
                    !.updatedAt = w.updatedAt, !.rev = @ + 1]]
  ELSE s

\* A record.update() write reaching the storage: it is stored when the
\* document still has the revision it was read with, and rejected otherwise
RxSettle(s, w) ==
  IF w.id \in DOMAIN s /\ s[w.id].rev = w.rev
  THEN [s EXCEPT ![w.id] =
          [@ EXCEPT !.content = w.content, !.embedding = w.embedding,
                    !.metadata = w.metadata, !.updatedAt = w.updatedAt,
                    !.rev = @ + 1]]
  ELSE s

\* a delete whose findOne has no selector: it removes the first document
RxDbVector_deleteFirst(s, id) ==
  IF RxFind(s) = <<>> THEN s ELSE Remove(s, RxFind(s)[1].id)

\* RxDbVector.delete: findOne, then record.remove() when there is one
RxDbVector_delete(s, id) ==
  IF RxFindOneById(s, id) = {} THEN s ELSE Remove(s, id)

\* What arithmetic on a missing vector component gives. No comparison with
\* NaN is true; where a sort has to place it, it is placed as the largest
\* distance.
NaN == 99

\* euclideanDistance of two vectors of dimension 1
euclideanDistance(u, v) ==
  IF Len(u) = 0 \/ Len(v) = 0 THEN NaN ELSE Abs(u[1] - v[1])

\* a comparator that sorts by increasing distance
sortByDistanceAscending(a, b) == a.distance - b.distance

\* sortByObjectNumberProperty("distance"): the comparator handed to sort; it
\* sorts by decreasing value of the property
sortByObjectNumberProperty(a, b) == b.distance - a.distance

\* RxDbVector.search
RxDbVector_search(s, embedding) ==
  LET vectors == RxFind(s)
      distances == [i \in 1..Len(vectors) |->
                      [doc |-> vectors[i],
                       distance |-> euclideanDistance(embedding, vectors[i].embedding)]]
      within(r) == r.distance # NaN /\ r.distance <= threshold
      filtered == SelectSeq(distances, within)
      compared == [i \in 1..Len(filtered) |-> [j \in 1..Len(filtered) |->
                     sortByObjectNumberProperty(filtered[i], filtered[j])]]
      results == Slice(Reverse(Sort(filtered, compared)), topK)
  IN [i \in 1..Len(results) |-> toJSON(results[i].doc)]

\* RxDbVector.list: documents in ascending id order, from the cursor on
\* (id $gte cursor) when a cursor is given, cut to limit when a limit is
\* given; an absent cursor is undefined, an absent limit is 0
RxDbVector_list(s, cursor, limit) ==
  LET fromCursor(d) == cursor = undefined \/ d.id >= cursor
      records == SelectSeq(RxFind(s), fromCursor)
      page == IF limit = 0 THEN records ELSE Slice(records, limit)
  IN [i \in 1..Len(page) |-> toJSON(page[i])]

\* a list that skips props.offset records
RxDbVector_listSkipping(s, props) ==
  LET all == RxDbVector_list(s, undefined, 0)
      rest == SubSeq(all, Min(props.offset, Len(all)) + 1, Len(all))
  IN IF props.limit = 0 THEN rest ELSE Slice(rest, props.limit)

\* RxDbVector.list(props): it reads props?.cursor and props?.limit, each
\* used when it is truthy, and nothing else of props
RxDbVector_listProps(s, props) ==
  RxDbVector_list(s,
    IF "cursor" \in DOMAIN props THEN props.cursor ELSE undefined,
    IF "limit" \in DOMAIN props THEN props.limit ELSE 0)

\* --------------------------------------------------------- TbVectorStore
\* what TbVectorStore hands out for a node
TbResult(node) ==
  [id |-> node.id, embedding |-> node.embedding, content |-> node.content,
   metadata |-> EmptyMetadata]

\* TbVectorStore.get
TbVectorStore_get(s, id) ==
  IF id \in DOMAIN s THEN {TbResult(s[id])} ELSE {}

\* TbVectorStore.add for one entry: vectorId = store.nodes.size, then
\* store.addVector(vectorId, ...) sets that key of the node map
TbVectorId(s) == Cardinality(DOMAIN s)
TbVectorStore_add(s, entry) ==
  Put(s, TbVectorId(s),
      [id |-> TbVectorId(s), embedding |-> entry.embedding,
       content |-> entry.content])

\* TbVectorStore.update, for a node that exists
TbVectorStore_update(s, embedding) ==
  [s EXCEPT ![embedding.id] =
     [@ EXCEPT !.embedding = embedding.embedding,
               !.content = embedding.content]]

\* TbVectorStore.delete: store.nodes.delete(id)
TbVectorStore_delete(s, id) == Remove(s, id)

\* the comparator of store.query: nearest first
byDistance(a, b) == a.distance - b.distance

\* TbVectorStore.search: store.query(embedding, topK), the topK nearest nodes
TbVectorStore_search(s, embedding) ==
  LET ids == SetToSortedSeq(DOMAIN s)
      distances == [i \in 1..Len(ids) |->
                      [doc |-> s[ids[i]],
                       distance |-> euclideanDistance(embedding, s[ids[i]].embedding)]]
      compared == [i \in 1..Len(ids) |-> [j \in 1..Len(ids) |->
                     byDistance(distances[i], distances[j])]]
      results == Slice(Sort(distances, compared), tbTopK)
  IN [i \in 1..Len(results) |-> TbResult(results[i].doc)]

\* ----------------------------------------------------------- VectorStore
VectorStore_search(k, s, embedding) ==
  IF k = "rxdb" THEN RxDbVector_search(s, embedding)
  ELSE TbVectorStore_search(s, embedding)

VectorStore_get(k, s, id) ==
  IF k = "rxdb" THEN RxDbVector_get(s, id) ELSE TbVectorStore_get(s, id)

\* ----------------------------------------------------------- MemoryStore
\* Lookup that falls back to the first candidate for a key the map lacks
LookupOrFirst(obj, key) ==
  IF key \in DOMAIN obj THEN obj[key]
  ELSE IF "0" \in DOMAIN obj THEN obj["0"] ELSE undefined

\* obj[key] of a plain object: undefined for a key it does not hold
Lookup(obj, key) == IF key \in DOMAIN obj THEN obj[key] ELSE undefined

\* An object literal inherits the properties of Object.prototype: "toString"
\* stands for them (constructor, valueOf, hasOwnProperty, ...). Their values
\* are functions: truthy, and with no element at any index.
ObjectPrototypeKeys == {"toString"}
NotAnEmbedding == <<>>

\* key in obj
In(obj, key) == key \in DOMAIN obj \/ key \in ObjectPrototypeKeys

\* obj[key], for an object whose own values are embeddings
Get(obj, key) ==
  IF key \in DOMAIN obj THEN obj[key] ELSE NotAnEmbedding

\* obj[key] ? ... : ...  -- an embedding is an array, a function is truthy,
\* undefined is not
Truthy(obj, key) == In(obj, key)

\* addMemory: content in existingEmbeddings ? existingEmbeddings[content]
\*   : (await this.embedder.embed([content]))[0]
\* updateMemory: existingEmbeddings[content] ? existingEmbeddings[content]
\*   : (await this.embedder.embed([content]))[0]
ResolveEmbedding(existingEmbeddings, content) ==
  IF In(existingEmbeddings, content) THEN Get(existingEmbeddings, content)
  ELSE embed(content)

\* the embedder is asked for a text that was not found among the embeddings
EmbedCallsAfter(found, content) ==
  IF found THEN embedCalls ELSE Append(embedCalls, content)

\* retrievedOldMemory.forEach((memory, i) => tempIdMappings[String(i)] = memory.id),
\* over the first n elements
RECURSIVE TempIdMappingsUpTo(_, _)
TempIdMappingsUpTo(retrieved, n) ==
  IF n = 0 THEN [k \in {} |-> k]
  ELSE Put(TempIdMappingsUpTo(retrieved, n - 1), String(n - 1), retrieved[n].id)

\* temporary identifiers counted from 1
BuildTempIdMappingsOneBased(retrieved) ==
  [k \in {String(i) : i \in 1..Len(retrieved)} |->
     retrieved[CHOOSE i \in 1..Len(retrieved) : String(i) = k].id]

\* temporary identifiers handed out from the last candidate to the first
BuildTempIdMappingsReversed(retrieved) ==
  [k \in {String(i - 1) : i \in 1..Len(retrieved)} |->
     retrieved[CHOOSE i \in 1..Len(retrieved) :
                 String(Len(retrieved) - i) = k].id]

\* one temporary identifier per persisted record: a record that is already
\* in the map gets no second one
BuildTempIdMappingsDeduplicated(retrieved) ==
  LET first(i) == \A j \in 1..(i - 1) : retrieved[j].id # retrieved[i].id
      kept == {i \in 1..Len(retrieved) : first(i)}
  IN [k \in {String(i - 1) : i \in kept} |->
        retrieved[CHOOSE i \in kept : String(i - 1) = k].id]

BuildTempIdMappings(retrieved) == TempIdMappingsUpTo(retrieved, Len(retrieved))

\* candidates numbered from 1
ReplaceIdsOneBased(retrieved) ==
  [i \in 1..Len(retrieved) |-> [retrieved[i] EXCEPT !.id = String(i)]]

\* retrievedOldMemory[i].id = String(i)
ReplaceIds(retrieved) ==
  [i \in 1..Len(retrieved) |-> [retrieved[i] EXCEPT !.id = String(i - 1)]]

\* the record add() pushes for an UPDATE: the argument of vector.update
UpdateArgument(memoryId, embedding, content) ==
  [id |-> memoryId, embedding |-> embedding, content |-> content,
   metadata |-> EmptyMetadata]

\* Date.now(): the clock has stood still or moved on since the last reading
DateNow == {now, Min(now + 1, MaxClock)}

\* ---------------------------------------------------------------- Init
Init ==
  /\ kind \in {"rxdb", "tb"}
  /\ initialized = FALSE
  /\ store = EmptyStore
  /\ pendingWrites = {}
  /\ issued = {}
  /\ now = 0
  /\ calls = 0
  /\ pc = "idle"
  /\ raisedAt = ""
  /\ error = ""
  /\ newRetrievedFacts = <<>>
  /\ factIdx = 1
  /\ newMessageEmbeddings = [t \in {} |-> t]
  /\ existingMemories = <<>>
  /\ retrievedOldMemory = <<>>
  /\ tempIdMappings = [k \in {} |-> k]
  /\ actions = <<>>
  /\ actionIdx = 1
  /\ returnedMemories = <<>>
  /\ embedCalls = <<>>
  /\ searchQuery = <<>>
  /\ searchResults = <<>>
  /\ listLimit = 0
  /\ listPages = <<>>
  /\ opCalled = ""
  /\ opError = ""
  /\ listProps = NoProps
  /\ uiNow = 0
  /\ refreshPc = [c \in Chains |-> "none"]
  /\ timers = [c \in Chains |-> <<>>]
  /\ memories = <<>>

\* -------------------------------------------------------------- actions
\* initialize() completes: #vector / #store is set
Initialize ==
  /\ ~initialized
  /\ initialized' = TRUE
  /\ UNCHANGED <<kind, store, pendingWrites, issued, now, callVars,
                 queryVars, clientVars>>

\* an Error raised while an action is applied is swallowed and the loop
\* goes on with the next action
ThrowAndContinue(at, message) ==
  /\ IF at = "apply"
     THEN /\ actionIdx' = actionIdx + 1
          /\ pc' = IF actionIdx = Len(actions) THEN "returned" ELSE "apply"
          /\ UNCHANGED <<raisedAt, error>>
     ELSE /\ pc' = "raised"
          /\ raisedAt' = at
          /\ error' = message
          /\ UNCHANGED actionIdx
  /\ UNCHANGED <<storeVars, calls, newRetrievedFacts, factIdx,
                 newMessageEmbeddings, existingMemories, retrievedOldMemory,
                 tempIdMappings, actions, returnedMemories,
                 queryVars, clientVars>>

\* an Error leaves add(): nothing else is touched
Throw(at, message) ==
  /\ pc' = "raised"
  /\ raisedAt' = at
  /\ error' = message
  /\ UNCHANGED <<storeVars, calls, newRetrievedFacts, factIdx,
                 newMessageEmbeddings, existingMemories, retrievedOldMemory,
                 tempIdMappings, actions, actionIdx, returnedMemories,
                 queryVars, clientVars>>

\* the caller calls add(content)
CallAdd(maxCalls) ==
  /\ pc \in {"idle", "returned", "raised"}
  /\ calls < maxCalls
  /\ calls' = calls + 1
  /\ pc' = "extract"
  /\ raisedAt' = ""
  /\ error' = ""
  /\ newRetrievedFacts' = <<>>
  /\ factIdx' = 1
  /\ newMessageEmbeddings' = [t \in {} |-> t]
  /\ existingMemories' = <<>>
  /\ retrievedOldMemory' = <<>>
  /\ tempIdMappings' = [k \in {} |-> k]
  /\ actions' = <<>>
  /\ actionIdx' = 1
  /\ returnedMemories' = <<>>
  /\ embedCalls' = <<>>
  /\ UNCHANGED <<storeVars,
                 queryVars, clientVars>>

\* llm.generate returns the facts
Extract ==
  /\ pc = "extract"
  /\ \E facts \in FactLists : newRetrievedFacts' = facts
  /\ pc' = "facts"
  /\ UNCHANGED <<storeVars, calls, raisedAt, error, factIdx,
                 newMessageEmbeddings, existingMemories, retrievedOldMemory,
                 tempIdMappings, actions, actionIdx, returnedMemories,
                 embedCalls,
                 queryVars, clientVars>>

\* the loop over the facts, storing each fact as soon as it is embedded
EmbedAndSearchStoring ==
  /\ pc = "facts"
  /\ factIdx <= Len(newRetrievedFacts)
  /\ initialized
  /\ LET fact == newRetrievedFacts[factIdx]
         entry == [embedding |-> embed(fact), content |-> fact]
     IN /\ newMessageEmbeddings' = Put(newMessageEmbeddings, fact, embed(fact))
        /\ existingMemories' =
             Append(existingMemories, VectorStore_search(kind, store, embed(fact)))
        /\ retrievedOldMemory' =
             retrievedOldMemory \o VectorStore_search(kind, store, embed(fact))
        /\ factIdx' = factIdx + 1
        /\ embedCalls' = Append(embedCalls, fact)
        /\ IF kind = "rxdb"
           THEN \E uuid \in randomUUID(issued) :
                  /\ store' = RxDbVector_add(store, entry, uuid, now)
                  /\ issued' = issued \cup {uuid}
           ELSE /\ store' = TbVectorStore_add(store, entry)
                /\ UNCHANGED issued
        /\ UNCHANGED <<kind, initialized, pendingWrites, now, calls, pc,
                       raisedAt, error, newRetrievedFacts, tempIdMappings,
                       actions, actionIdx, returnedMemories,
                       queryVars, clientVars>>

\* one iteration of the loop over the facts: embed, remember, search, push
EmbedAndSearch ==
  /\ pc = "facts"
  /\ factIdx <= Len(newRetrievedFacts)
  /\ LET fact == newRetrievedFacts[factIdx]
         factEmbedding == embed(fact)
     IN /\ embedCalls' = Append(embedCalls, fact)
        /\ IF ~initialized
           THEN Throw("facts", "not initialized")
           ELSE /\ newMessageEmbeddings' = Put(newMessageEmbeddings, fact, factEmbedding)
                /\ existingMemories' =
                     Append(existingMemories, VectorStore_search(kind, store, factEmbedding))
                /\ retrievedOldMemory' =
                     retrievedOldMemory \o VectorStore_search(kind, store, factEmbedding)
                /\ factIdx' = factIdx + 1
                /\ UNCHANGED <<storeVars, calls, pc, raisedAt, error,
                               newRetrievedFacts, tempIdMappings, actions,
                               actionIdx, returnedMemories,
                               queryVars, clientVars>>

\* after the loop: the temporary identifiers
Remap ==
  /\ pc = "facts"
  /\ factIdx > Len(newRetrievedFacts)
  /\ tempIdMappings' = BuildTempIdMappings(retrievedOldMemory)
  /\ retrievedOldMemory' = ReplaceIds(retrievedOldMemory)
  /\ pc' = "decide"
  /\ UNCHANGED <<storeVars, calls, raisedAt, error, newRetrievedFacts, factIdx,
                 newMessageEmbeddings, existingMemories, actions, actionIdx,
                 returnedMemories, embedCalls,
                 queryVars, clientVars>>

\* schema.parse of the Decision Service's response: every action is an
\* object with id: z.string(), text: z.string() and action: z.enum(...)
SchemaParses(list) ==
  \A i \in 1..Len(list) : {"id", "text", "action"} \subseteq DOMAIN list[i]

\* llm.generate returns the actions, or raises the ZodError of schema.parse;
\* the loop over the actions starts
Decide(lists) ==
  /\ pc = "decide"
  /\ \E list \in lists :
       IF SchemaParses(list)
       THEN /\ actions' = list
            /\ pc' = IF list = <<>> THEN "returned" ELSE "apply"
            /\ actionIdx' = 1
            /\ UNCHANGED <<storeVars, calls, raisedAt, error,
                           newRetrievedFacts, factIdx, newMessageEmbeddings,
                           existingMemories, retrievedOldMemory,
                           tempIdMappings, returnedMemories,
                           queryVars, clientVars>>
       ELSE Throw("decide", "Required")
  /\ UNCHANGED embedCalls

\* a continue that goes round the loop without taking the next action
ContinueRepeating ==
  /\ actionIdx' = actionIdx
  /\ pc' = "apply"
  /\ UNCHANGED <<kind, initialized, calls, raisedAt, error, newRetrievedFacts,
                 factIdx, newMessageEmbeddings, existingMemories,
                 retrievedOldMemory, tempIdMappings, actions,
                 queryVars, clientVars>>

\* continue: the next action, or return returnedMemories after the last
Continue ==
  /\ actionIdx' = actionIdx + 1
  /\ pc' = IF actionIdx = Len(actions) THEN "returned" ELSE "apply"
  /\ UNCHANGED <<kind, initialized, calls, raisedAt, error, newRetrievedFacts,
                 factIdx, newMessageEmbeddings, existingMemories,
                 retrievedOldMemory, tempIdMappings, actions,
                 queryVars, clientVars>>

\* case UpdateMemoryAction.ADD
ApplyAdd ==
  /\ pc = "apply"
  /\ actions[actionIdx].action = ADD
  /\ LET action == actions[actionIdx]
         entry == [embedding |-> ResolveEmbedding(newMessageEmbeddings, action.text),
                   content |-> action.text]
     IN /\ embedCalls' = EmbedCallsAfter(In(newMessageEmbeddings, action.text),
                                         action.text)
        /\ IF ~initialized
           THEN Throw("apply", "not initialized")
           ELSE IF kind = "rxdb"
           THEN \E uuid \in randomUUID(issued), t \in DateNow :
                  /\ store' = RxDbVector_add(store, entry, uuid, t)
                  /\ issued' = issued \cup {uuid}
                  /\ now' = t
                  /\ returnedMemories' = Append(returnedMemories, toJSON(store'[uuid]))
                  /\ UNCHANGED pendingWrites
                  /\ Continue
           ELSE /\ store' = TbVectorStore_add(store, entry)
                /\ returnedMemories' =
                     Append(returnedMemories,
                            [id |-> TbVectorId(store), embedding |-> entry.embedding,
                             content |-> entry.content, metadata |-> EmptyMetadata])
                /\ UNCHANGED <<pendingWrites, issued, now>>
                /\ Continue

\* an UPDATE that stores the record anew when the store no longer holds it
ApplyUpdateUpsert ==
  /\ pc = "apply"
  /\ actions[actionIdx].action = UPDATE
  /\ initialized
  /\ LET action == actions[actionIdx]
         memoryId == Lookup(tempIdMappings, action.id)
         embedding == UpdateArgument(memoryId,
                        ResolveEmbedding(newMessageEmbeddings, action.text),
                        action.text)
     IN /\ store' = Put(store, memoryId,
                        [id |-> memoryId, content |-> embedding.content,
                         embedding |-> embedding.embedding,
                         metadata |-> embedding.metadata,
                         createdAt |-> now, updatedAt |-> now, rev |-> 0])
        /\ returnedMemories' = Append(returnedMemories, embedding)
        /\ embedCalls' = EmbedCallsAfter(Truthy(newMessageEmbeddings, action.text),
                                         action.text)
        /\ UNCHANGED <<pendingWrites, issued, now>>
        /\ Continue

\* case UpdateMemoryAction.UPDATE
ApplyUpdate ==
  /\ pc = "apply"
  /\ actions[actionIdx].action = UPDATE
  /\ LET action == actions[actionIdx]
         memoryId == Lookup(tempIdMappings, action.id)
         embedding == UpdateArgument(memoryId,
                        ResolveEmbedding(newMessageEmbeddings, action.text),
                        action.text)
         called == EmbedCallsAfter(Truthy(newMessageEmbeddings, action.text),
                                   action.text)
     IN IF ~initialized
        THEN Throw("apply", "not initialized") /\ UNCHANGED embedCalls
        ELSE IF VectorStore_get(kind, store, memoryId) = {}
        THEN Throw("apply", "Memory not found") /\ UNCHANGED embedCalls
        ELSE IF kind = "rxdb"
        THEN IF RxFindOneById(store, memoryId) = {}
             THEN Throw("apply", "Vector with id not found") /\ embedCalls' = called
             ELSE \E t \in DateNow :
                    /\ pendingWrites' = pendingWrites \cup
                         {RxDbVector_update(store[memoryId], embedding, t)}
                    /\ now' = t
                    /\ returnedMemories' = Append(returnedMemories, embedding)
                    /\ embedCalls' = called
                    /\ UNCHANGED <<store, issued>>
                    /\ Continue
        ELSE /\ store' = TbVectorStore_update(store, embedding)
             /\ returnedMemories' = Append(returnedMemories, embedding)
             /\ embedCalls' = called
             /\ UNCHANGED <<pendingWrites, issued, now>>
             /\ Continue

\* a DELETE that insists on the record being there
ApplyDeleteStrict ==
  /\ pc = "apply"
  /\ actions[actionIdx].action = DELETE
  /\ LET memoryId == Lookup(tempIdMappings, actions[actionIdx].id)
     IN IF ~initialized
        THEN Throw("apply", "not initialized")
        ELSE IF memoryId \notin DOMAIN store
        THEN Throw("apply", "Memory not found")
        ELSE /\ store' = Remove(store, memoryId)
             /\ UNCHANGED <<pendingWrites, issued, now, returnedMemories>>
             /\ Continue
  /\ UNCHANGED embedCalls

\* case UpdateMemoryAction.DELETE
ApplyDelete ==
  /\ pc = "apply"
  /\ actions[actionIdx].action = DELETE
  /\ LET memoryId == Lookup(tempIdMappings, actions[actionIdx].id)
     IN IF ~initialized
        THEN Throw("apply", "not initialized")
        ELSE /\ store' = IF kind = "rxdb" THEN RxDbVector_delete(store, memoryId)
                         ELSE TbVectorStore_delete(store, memoryId)
             /\ UNCHANGED <<pendingWrites, issued, now, returnedMemories>>
             /\ Continue
  /\ UNCHANGED embedCalls

\* a NONE that reports the action it skipped
ApplyNoneEchoing ==
  /\ pc = "apply"
  /\ actions[actionIdx].action = NONE
  /\ returnedMemories' =
       Append(returnedMemories,
              [id |-> Lookup(tempIdMappings, actions[actionIdx].id),
               content |-> actions[actionIdx].text])
  /\ UNCHANGED <<store, pendingWrites, issued, now, embedCalls>>
  /\ Continue

\* case UpdateMemoryAction.NONE
ApplyNone ==
  /\ pc = "apply"
  /\ actions[actionIdx].action = NONE
  /\ UNCHANGED <<store, pendingWrites, issued, now, returnedMemories,
                 embedCalls>>
  /\ Continue

\* whether applying the current action calls a collaborator that can fail:
\* the embedder for a text that is no fact of this call, the RxDB storage
ApplyCallsOut ==
  LET action == actions[actionIdx]
  IN /\ action.action # NONE
     /\ \/ kind = "rxdb"
        \/ /\ action.action = ADD
           /\ ~In(newMessageEmbeddings, action.text)
        \/ /\ action.action = UPDATE
           /\ ~Truthy(newMessageEmbeddings, action.text)
           /\ VectorStore_get(kind, store, Lookup(tempIdMappings, action.id)) # {}

\* a collaborator call fails: the LLM request or schema.parse of its
\* response, the embedder request, a storage operation
CollaboratorFails ==
  /\ \/ pc \in {"extract", "decide"}
     \/ pc = "facts" /\ factIdx <= Len(newRetrievedFacts)
     \/ pc = "apply" /\ initialized /\ ApplyCallsOut
  /\ Throw(pc, "collaborator")
  /\ UNCHANGED embedCalls

\* a record.update() that RxDbVector.update left running settles
RecordUpdateSettles ==
  /\ \E w \in pendingWrites :
       /\ store' = RxSettle(store, w)
       /\ pendingWrites' = pendingWrites \ {w}
  /\ UNCHANGED <<kind, initialized, issued, now, callVars,
                 queryVars, clientVars>>

\* a search that also stores what was searched for
SearchAndRemember ==
  /\ initialized
  /\ \E content \in Texts :
       LET entry == [embedding |-> embed(content), content |-> content]
       IN /\ searchQuery' = embed(content)
          /\ searchResults' = VectorStore_search(kind, store, embed(content))
          /\ IF kind = "rxdb"
             THEN \E uuid \in randomUUID(issued) :
                    /\ store' = RxDbVector_add(store, entry, uuid, now)
                    /\ issued' = issued \cup {uuid}
             ELSE /\ store' = TbVectorStore_add(store, entry)
                  /\ UNCHANGED issued
  /\ UNCHANGED <<kind, initialized, pendingWrites, now, callVars, listLimit,
                 listPages, clientVars>>

\* MemoryStore.search(content): embed the content, search the store
Search ==
  /\ initialized
  /\ \E content \in Texts :
       /\ searchQuery' = embed(content)
       /\ searchResults' = VectorStore_search(kind, store, embed(content))
  /\ UNCHANGED <<storeVars, callVars, listLimit, listPages, clientVars>>

\* MemoryStore.list(props: {offset, limit}): return this.vector.list(props)
MemoryStore_list ==
  /\ initialized
  /\ kind = "rxdb"
  /\ \E offset \in 0..MaxOffset, limit \in 0..MaxLimit :
       LET props == [offset |-> offset, limit |-> limit]
       IN /\ listProps' = props
          /\ listLimit' = limit
          /\ listPages' = <<RxDbVector_listProps(store, props)>>
  /\ UNCHANGED <<storeVars, callVars, searchQuery, searchResults, opCalled,
                 opError, uiVars>>

\* list({limit}): the first page of a pagination
ListFirstPage ==
  /\ initialized
  /\ kind = "rxdb"
  /\ \E limit \in 0..MaxLimit :
       /\ listLimit' = limit
       /\ listPages' = <<RxDbVector_list(store, undefined, limit)>>
  /\ UNCHANGED <<storeVars, callVars, searchQuery, searchResults, clientVars>>

\* list({cursor, limit}) after a full page: the cursor is the id of the last
\* record of the page before
ListNextPage ==
  /\ initialized
  /\ kind = "rxdb"
  /\ listPages # <<>>
  /\ Len(listPages) < MaxPages
  /\ listLimit > 0
  /\ LET last == listPages[Len(listPages)]
     IN /\ Len(last) = listLimit
        /\ listPages' =
             Append(listPages,
                    RxDbVector_list(store, last[Len(last)].id, listLimit))
  /\ UNCHANGED <<storeVars, callVars, searchQuery, searchResults, listLimit,
                 clientVars>>

Next ==
  \/ Initialize
  \/ CallAdd(MaxCalls)
  \/ Extract
  \/ EmbedAndSearch
  \/ Remap
  \/ Decide(ActionLists)
  \/ ApplyAdd
  \/ ApplyUpdate
  \/ ApplyDelete
  \/ ApplyNone
  \/ CollaboratorFails
  \/ RecordUpdateSettles

Spec == Init /\ [][Next]_vars

\* ------------------------------------------- a store that holds records
\* Later in a session: earlier add() calls have stored these contents with
\* ADD actions, in this order, and the session makes one more call.
LoadedContents == {<<"a">>, <<"a", "c">>, <<"b", "a">>}

Entry(text) == [embedding |-> embed(text), content |-> text]

RECURSIVE StoreOf(_, _)
StoreOf(k, contents) ==
  IF contents = <<>> THEN EmptyStore
  ELSE LET before == StoreOf(k, SubSeq(contents, 1, Len(contents) - 1))
           entry == Entry(contents[Len(contents)])
       IN IF k = "rxdb" THEN RxDbVector_add(before, entry, Len(contents), 0)
          ELSE TbVectorStore_add(before, entry)

InitLoaded ==
  /\ kind \in {"rxdb", "tb"}
  /\ initialized = TRUE
  /\ \E contents \in LoadedContents :
       /\ store = StoreOf(kind, contents)
       /\ issued = IF kind = "rxdb" THEN 1..Len(contents) ELSE {}
  /\ pendingWrites = {}
  /\ now = MaxClock
  /\ calls = 0
  /\ pc = "idle"
  /\ raisedAt = ""
  /\ error = ""
  /\ newRetrievedFacts = <<>>
  /\ factIdx = 1
  /\ newMessageEmbeddings = [t \in {} |-> t]
  /\ existingMemories = <<>>
  /\ retrievedOldMemory = <<>>
  /\ tempIdMappings = [k \in {} |-> k]
  /\ actions = <<>>
  /\ actionIdx = 1
  /\ returnedMemories = <<>>
  /\ embedCalls = <<>>
  /\ searchQuery = <<>>
  /\ searchResults = <<>>
  /\ listLimit = 0
  /\ listPages = <<>>
  /\ opCalled = ""
  /\ opError = ""
  /\ listProps = NoProps
  /\ uiNow = 0
  /\ refreshPc = [c \in Chains |-> "none"]
  /\ timers = [c \in Chains |-> <<>>]
  /\ memories = <<>>

NextLoaded ==
  \/ CallAdd(MaxCallsLoaded)
  \/ Extract
  \/ EmbedAndSearch
  \/ Remap
  \/ Decide(ActionListsLoaded)
  \/ ApplyAdd
  \/ ApplyUpdate
  \/ ApplyDelete
  \/ ApplyNone
  \/ CollaboratorFails
  \/ RecordUpdateSettles

SpecLoaded == InitLoaded /\ [][NextLoaded]_vars

\* ------------------- a store filled from outside, and any action text
\* The records were stored through VectorStore.add by another client of the
\* store, with metadata of their own; the Decision Service is free to put
\* any string in an action's text, the name of an inherited property of an
\* object literal included, and to leave out the reference of an ADD or
\* NONE action.
ImportedMetadata == {<<"source", "import">>}

ImportedEntry(text) ==
  [embedding |-> embed(text), content |-> text, metadata |-> ImportedMetadata]

RECURSIVE ImportedStoreOf(_, _)
ImportedStoreOf(k, contents) ==
  IF contents = <<>> THEN EmptyStore
  ELSE LET before == ImportedStoreOf(k, SubSeq(contents, 1, Len(contents) - 1))
           entry == ImportedEntry(contents[Len(contents)])
       IN IF k = "rxdb" THEN RxDbVector_add(before, entry, Len(contents), 0)
          ELSE TbVectorStore_add(before, entry)

AnyActionTexts == ActionTexts \cup ObjectPrototypeKeys
AnyTextActions == [id : ActionIds, text : AnyActionTexts, action : UpdateMemoryAction]
\* ADD and NONE actions that come without a reference
NoReferenceActions == [text : AnyActionTexts, action : {ADD, NONE}]
ActionListsImported ==
  SeqsUpTo(AnyTextActions \cup NoReferenceActions, MaxActionsImported)

InitImported ==
  /\ kind \in {"rxdb", "tb"}
  /\ initialized = TRUE
  /\ \E contents \in LoadedContents :
       /\ store = ImportedStoreOf(kind, contents)
       /\ issued = IF kind = "rxdb" THEN 1..Len(contents) ELSE {}
  /\ pendingWrites = {}
  /\ now = MaxClock
  /\ calls = 0
  /\ pc = "idle"
  /\ raisedAt = ""
  /\ error = ""
  /\ newRetrievedFacts = <<>>
  /\ factIdx = 1
  /\ newMessageEmbeddings = [t \in {} |-> t]
  /\ existingMemories = <<>>
  /\ retrievedOldMemory = <<>>
  /\ tempIdMappings = [k \in {} |-> k]
  /\ actions = <<>>
  /\ actionIdx = 1
  /\ returnedMemories = <<>>
  /\ embedCalls = <<>>
  /\ searchQuery = <<>>
  /\ searchResults = <<>>
  /\ listLimit = 0
  /\ listPages = <<>>
  /\ opCalled = ""
  /\ opError = ""
  /\ listProps = NoProps
  /\ uiNow = 0
  /\ refreshPc = [c \in Chains |-> "none"]
  /\ timers = [c \in Chains |-> <<>>]
  /\ memories = <<>>

NextImported ==
  \/ CallAdd(MaxCallsLoaded)
  \/ Extract
  \/ EmbedAndSearch
  \/ Remap
  \/ Decide(ActionListsImported)
  \/ ApplyAdd
  \/ ApplyUpdate
  \/ ApplyDelete
  \/ ApplyNone
  \/ CollaboratorFails
  \/ RecordUpdateSettles

SpecImported == InitImported /\ [][NextImported]_vars

\* add() is a chain of awaits: when every collaborator call returns or
\* fails, the step add() is waiting at is taken in the end.
AddProceeds ==
  \/ Extract
  \/ EmbedAndSearch
  \/ Remap
  \/ Decide(ActionListsImported)
  \/ ApplyAdd
  \/ ApplyUpdate
  \/ ApplyDelete
  \/ ApplyNone
  \/ CollaboratorFails

SpecImportedFair == SpecImported /\ WF_vars(AddProceeds)

\* --------------------------------------- search() and list() on a store
\* The store holds up to MaxStored records, stored by earlier ADD actions in
\* this order; the caller searches it and pages through it.
StoredContents == SeqsUpTo(Texts, MaxStored)

InitStore ==
  /\ kind \in {"rxdb", "tb"}
  /\ initialized = TRUE
  /\ \E contents \in StoredContents :
       /\ store = StoreOf(kind, contents)
       /\ issued = IF kind = "rxdb" THEN 1..Len(contents) ELSE {}
  /\ pendingWrites = {}
  /\ now = MaxClock
  /\ calls = 0
  /\ pc = "idle"
  /\ raisedAt = ""
  /\ error = ""
  /\ newRetrievedFacts = <<>>
  /\ factIdx = 1
  /\ newMessageEmbeddings = [t \in {} |-> t]
  /\ existingMemories = <<>>
  /\ retrievedOldMemory = <<>>
  /\ tempIdMappings = [k \in {} |-> k]
  /\ actions = <<>>
  /\ actionIdx = 1
  /\ returnedMemories = <<>>
  /\ embedCalls = <<>>
  /\ searchQuery = <<>>
  /\ searchResults = <<>>
  /\ listLimit = 0
  /\ listPages = <<>>
  /\ opCalled = ""
  /\ opError = ""
  /\ listProps = NoProps
  /\ uiNow = 0
  /\ refreshPc = [c \in Chains |-> "none"]
  /\ timers = [c \in Chains |-> <<>>]
  /\ memories = <<>>

NextStore ==
  \/ Search
  \/ MemoryStore_list
  \/ ListFirstPage
  \/ ListNextPage

SpecStore == InitStore /\ [][NextStore]_vars

\* ------------------------------ the store's operations, called directly
\* A client calls the operations of the vector store itself, at any time
\* after the constructor has started initialize(): before or after
\* #vector / #store is set.
NotInitialized == "not initialized"

\* identifiers a client passes to get, update and delete
DirectIds == 0..MaxDirect

\* the operation returns, or raises the Error with this message
Called(op, message) ==
  /\ opCalled' = op
  /\ opError' = message
  /\ UNCHANGED <<listProps, uiVars>>

\* getVectorStore() / getStore() at the head of every operation
GuardFails(op) ==
  /\ ~initialized
  /\ Called(op, NotInitialized)
  /\ UNCHANGED <<storeVars, callVars, queryVars>>

\* get(id), search(embedding), list(): what they return is not kept here
VectorGet ==
  \/ GuardFails("get")
  \/ /\ initialized
     /\ Called("get", "")
     /\ UNCHANGED <<storeVars, callVars, queryVars>>

\* add([entry])
VectorAdd ==
  \/ GuardFails("add")
  \/ /\ initialized
     /\ \E text \in ActionTexts :
          LET entry == [embedding |-> embed(text), content |-> text]
          IN IF kind = "rxdb"
             THEN /\ Cardinality(issued) < MaxDirect
                  /\ \E uuid \in randomUUID(issued), t \in DateNow :
                       /\ store' = RxDbVector_add(store, entry, uuid, t)
                       /\ issued' = issued \cup {uuid}
                       /\ now' = t
             ELSE /\ Cardinality(DOMAIN store) < MaxDirect
                  /\ store' = TbVectorStore_add(store, entry)
                  /\ UNCHANGED <<issued, now>>
     /\ Called("add", "")
     /\ UNCHANGED <<kind, initialized, pendingWrites, callVars, queryVars>>

\* update(embedding)
VectorUpdate ==
  \/ GuardFails("update")
  \/ /\ initialized
     /\ \E id \in DirectIds, text \in ActionTexts :
          LET embedding == UpdateArgument(id, embed(text), text)
          IN IF id \notin DOMAIN store
             THEN /\ Called("update", "Vector with id not found")
                  /\ UNCHANGED <<store, pendingWrites, now>>
             ELSE IF kind = "rxdb"
             THEN /\ Cardinality(pendingWrites) < MaxDirect - 1
                  /\ store[id].rev < MaxDirect
                  /\ \E t \in DateNow :
                       /\ pendingWrites' = pendingWrites \cup
                            {RxDbVector_update(store[id], embedding, t)}
                       /\ now' = t
                  /\ Called("update", "")
                  /\ UNCHANGED store
             ELSE /\ store' = TbVectorStore_update(store, embedding)
                  /\ Called("update", "")
                  /\ UNCHANGED <<pendingWrites, now>>
     /\ UNCHANGED <<kind, initialized, issued, callVars, queryVars>>

\* delete(id)
VectorDelete ==
  \/ GuardFails("delete")
  \/ /\ initialized
     /\ \E id \in DirectIds :
          store' = IF kind = "rxdb" THEN RxDbVector_delete(store, id)
                   ELSE TbVectorStore_delete(store, id)
     /\ Called("delete", "")
     /\ UNCHANGED <<kind, initialized, pendingWrites, issued, now, callVars,
                    queryVars>>

\* search(embedding)
VectorSearch ==
  \/ GuardFails("search")
  \/ /\ initialized
     /\ Called("search", "")
     /\ UNCHANGED <<storeVars, callVars, queryVars>>

\* list(): RxDbVector has it; TbVectorStore defines no list, so the call
\* is a call of undefined
VectorList ==
  \/ /\ kind = "tb"
     /\ Called("list", "list is not a function")
     /\ UNCHANGED <<storeVars, callVars, queryVars>>
  \/ /\ kind = "rxdb"
     /\ GuardFails("list")
  \/ /\ kind = "rxdb"
     /\ initialized
     /\ Called("list", "")
     /\ UNCHANGED <<storeVars, callVars, queryVars>>

NextDirect ==
  \/ Initialize
  \/ VectorGet
  \/ VectorAdd
  \/ VectorUpdate
  \/ VectorDelete
  \/ VectorSearch
  \/ VectorList
  \/ RecordUpdateSettles

SpecDirect == Init /\ [][NextDirect]_vars

\* --------------------------------------------------- App: refreshMemories
\* The App creates its MemoryStore over a new RxDbVector (createMemoryStore),
\* whose database may hold the records of earlier sessions, and calls
\* refreshMemories() from its mount effect and after an add.
InitApp ==
  /\ kind = "rxdb"
  /\ initialized = FALSE
  /\ \E contents \in LoadedContents \cup {<<>>} :
       /\ store = StoreOf(kind, contents)
       /\ issued = 1..Len(contents)
  /\ pendingWrites = {}
  /\ now = 0
  /\ calls = 0
  /\ pc = "idle"
  /\ raisedAt = ""
  /\ error = ""
  /\ newRetrievedFacts = <<>>
  /\ factIdx = 1
  /\ newMessageEmbeddings = [t \in {} |-> t]
  /\ existingMemories = <<>>
  /\ retrievedOldMemory = <<>>
  /\ tempIdMappings = [k \in {} |-> k]
  /\ actions = <<>>
  /\ actionIdx = 1
  /\ returnedMemories = <<>>
  /\ embedCalls = <<>>
  /\ searchQuery = <<>>
  /\ searchResults = <<>>
  /\ listLimit = 0
  /\ listPages = <<>>
  /\ opCalled = ""
  /\ opError = ""
  /\ listProps = NoProps
  /\ uiNow = 0
  /\ refreshPc = [c \in Chains |-> "none"]
  /\ timers = [c \in Chains |-> <<>>]
  /\ memories = <<>>

\* time passes; initialisation, if it completes, has completed by
\* MaxInitTime, and after that the clock runs on for as long as a timer is
\* waiting to become due
Tick ==
  /\ \/ uiNow < MaxInitTime
     \/ /\ initialized
        /\ \E c \in Chains : timers[c] # <<>> /\ timers[c][1] > uiNow
  /\ uiNow' = uiNow + TickMs
  /\ UNCHANGED <<storeVars, callVars, queryVars, opCalled, opError, listProps,
                 refreshPc, timers, memories>>

\* refreshMemories() is called from outside: a new chain starts with
\* memory.list()
RefreshMemories(c) ==
  /\ refreshPc[c] = "none"
  /\ refreshPc' = [refreshPc EXCEPT ![c] = "listing"]
  /\ UNCHANGED <<storeVars, callVars, queryVars, opCalled, opError, listProps, uiNow,
                 timers, memories>>

\* a refresh that sets the retry timer and also tries again at once
RefreshSettlesEager(c) ==
  /\ refreshPc[c] = "listing"
  /\ IF initialized
     THEN /\ memories' = RxDbVector_list(store, undefined, 0)
          /\ refreshPc' = [refreshPc EXCEPT ![c] = "done"]
          /\ UNCHANGED timers
     ELSE /\ Len(timers[c]) <= MaxChains
          /\ timers' = [timers EXCEPT ![c] = Append(@, uiNow + retryDelay)]
          /\ UNCHANGED <<refreshPc, memories>>
  /\ UNCHANGED <<storeVars, callVars, queryVars, opCalled, opError, listProps, uiNow>>

\* await memory.list().then(setMemories) settles: the list is set, or the
\* catch block sets the timer of the retry
RefreshSettles(c) ==
  /\ refreshPc[c] = "listing"
  /\ IF initialized
     THEN /\ memories' = RxDbVector_list(store, undefined, 0)
          /\ refreshPc' = [refreshPc EXCEPT ![c] = "done"]
          /\ UNCHANGED timers
     ELSE /\ timers' = [timers EXCEPT ![c] = Append(@, uiNow + retryDelay)]
          /\ refreshPc' = [refreshPc EXCEPT ![c] = "waiting"]
          /\ UNCHANGED memories
  /\ UNCHANGED <<storeVars, callVars, queryVars, opCalled, opError, listProps, uiNow>>

\* a timer that is due fires: () => refreshMemories()
TimerFires(c) ==
  /\ timers[c] # <<>>
  /\ timers[c][1] <= uiNow
  /\ timers' = [timers EXCEPT ![c] = Tail(@)]
  /\ refreshPc' = [refreshPc EXCEPT ![c] = "listing"]
  /\ UNCHANGED <<storeVars, callVars, queryVars, opCalled, opError, listProps, uiNow,
                 memories>>

NextApp ==
  \/ Initialize
  \/ Tick
  \/ \E c \in Chains : RefreshMemories(c)
  \/ \E c \in Chains : RefreshSettles(c)
  \/ \E c \in Chains : TimerFires(c)

\* time passes, promises settle and due timers fire
SpecApp ==
  /\ InitApp
  /\ [][NextApp]_vars
  /\ WF_vars(Tick)
  /\ \A c \in Chains : WF_vars(RefreshSettles(c)) /\ WF_vars(TimerFires(c))

\* ================================================================ claims
\* a step taken by the running add() call
AddStep == callVars' # callVars

\* the action the loop is about to apply
CurrentAction == actions[actionIdx]

\* the temporary identifiers have been built
AfterRemap ==
  \/ pc \in {"decide", "apply", "returned"}
  \/ pc = "raised" /\ raisedAt \in {"decide", "apply"}

RECURSIVE Flatten(_)
Flatten(seqs) ==
  IF seqs = <<>> THEN <<>>
  ELSE Flatten(SubSeq(seqs, 1, Len(seqs) - 1)) \o seqs[Len(seqs)]

\* the candidate slots in order: the fact each was retrieved for and the
\* persisted id of the record
Slots ==
  Flatten([f \in 1..Len(existingMemories) |->
             [j \in 1..Len(existingMemories[f]) |->
                [fact |-> f, id |-> existingMemories[f][j].id]]])

\* the set of stores the loaded session starts from
LoadedStores == {StoreOf(kind, contents) : contents \in LoadedContents}

\* ---------------------------------------------------------------- C1
\* applying the current action cannot succeed: the store is not initialized,
\* or an UPDATE resolves to no stored record
ActionMustRaise ==
  /\ pc = "apply"
  /\ LET memoryId == Lookup(tempIdMappings, CurrentAction.id)
     IN \/ ~initialized /\ CurrentAction.action # NONE
        \/ /\ CurrentAction.action = UPDATE
           /\ \/ VectorStore_get(kind, store, memoryId) = {}
              \/ kind = "rxdb" /\ RxFindOneById(store, memoryId) = {}

\* C1: when applying the action at position i raises, add() raises to the
\* caller; the raise leaves the store, with everything the actions before i
\* did to it, as it is (nothing is rolled back), and after it no further
\* action of the list is applied: the loop position stays at i and the store
\* changes only by an update write of an earlier action settling.
C1_RaiseKeepsPrefixAndStops ==
  /\ [][(ActionMustRaise /\ AddStep) => pc' = "raised"]_vars
  /\ [][(pc = "apply" /\ pc' = "raised") =>
          /\ store' = store
          /\ pendingWrites' = pendingWrites
          /\ raisedAt' = "apply"
          /\ actions' = actions
          /\ actionIdx' = actionIdx]_vars
  /\ [][(pc = "raised" /\ pc' = "raised") =>
          /\ actionIdx' = actionIdx
          /\ \/ store' = store
             \/ \E w \in pendingWrites : store' = RxSettle(store, w)]_vars

\* add() raised at the second of three actions: the ADD before it is in the
\* store and in no way undone, the ADD behind it was not applied
C1_Witness ==
  /\ pc = "raised" /\ raisedAt = "apply"
  /\ Len(actions) = 3 /\ actionIdx = 2
  /\ actions[1].action = ADD /\ actions[1].text = "c"
  /\ actions[2].action = UPDATE
  /\ actions[3].action = ADD /\ actions[3].text = "a"
  /\ Len(returnedMemories) = 1
  /\ returnedMemories[1].id \in DOMAIN store
  /\ store[returnedMemories[1].id].content = "c"

\* ---------------------------------------------------------------- C2
\* the current action is an UPDATE whose reference this call never issued
UnissuedUpdate ==
  /\ pc = "apply"
  /\ CurrentAction.action = UPDATE
  /\ CurrentAction.id \notin DOMAIN tempIdMappings

BeforeActions ==
  \/ pc \in {"extract", "facts", "decide"}
  \/ pc = "raised" /\ raisedAt \in {"extract", "facts", "decide"}

\* C3: up to and including the step in which the Decision Service answers or
\* fails, no step of add() changes the store, queues a write or issues an
\* identifier; so when extraction, an embedding, a search or the decision
\* fails, add() has raised without having added, updated or deleted a record
\* and returns nothing. The only change the store can see in that time is an
\* update write that an earlier call left in flight.
C3_NoMutationBeforeDecision ==
  /\ [][(pc \in {"extract", "facts", "decide"} /\ AddStep) =>
          /\ store' = store
          /\ pendingWrites' = pendingWrites
          /\ issued' = issued]_vars
  /\ [][(BeforeActions /\ store' # store) =>
          /\ ~AddStep
          /\ \E w \in pendingWrites :
               /\ store' = RxSettle(store, w)
               /\ pendingWrites' = pendingWrites \ {w}]_vars
  /\ [](BeforeActions => actions = <<>> /\ returnedMemories = <<>>)

\* the decision call failed after candidates had been retrieved
C3_Witness ==
  /\ pc = "raised" /\ raisedAt = "decide"
  /\ Len(newRetrievedFacts) = 2
  /\ retrievedOldMemory # <<>>
  /\ store \in LoadedStores
  /\ pendingWrites = {}

\* ---------------------------------------------------------------- C4
\* C4: when the Extraction Service returned no facts, the Decision Service
\* is asked with no facts and no candidates, and whatever it answers add()
\* mutates nothing and returns an empty list.
C4_NoFactsNoMutation ==
  [][(newRetrievedFacts = <<>> /\ pc \in {"facts", "decide", "apply"} /\ AddStep) =>
       /\ retrievedOldMemory' = <<>>
       /\ store' = store
       /\ pendingWrites' = pendingWrites
       /\ returnedMemories' = <<>>]_vars

\* ---------------------------------------------------------------- C5
\* C5: a record retrieved for two different facts holds two distinct
\* temporary identifiers, both mapped to its persisted id; and a DELETE or
\* UPDATE naming a mapped temporary identifier acts on the record that
\* identifier maps to, and on no other.
C5_DuplicateCandidateTwoIds ==
  /\ [](AfterRemap =>
          LET slots == Slots
          IN \A i, j \in 1..Len(slots) :
               (slots[i].id = slots[j].id /\ slots[i].fact # slots[j].fact) =>
                 /\ String(i - 1) # String(j - 1)
                 /\ String(i - 1) \in DOMAIN tempIdMappings
                 /\ String(j - 1) \in DOMAIN tempIdMappings
                 /\ tempIdMappings[String(i - 1)] = slots[i].id
                 /\ tempIdMappings[String(j - 1)] = slots[i].id)
  /\ [][(pc = "apply" /\ CurrentAction.id \in DOMAIN tempIdMappings
          /\ AddStep /\ pc' # "raised") =>
          LET m == tempIdMappings[CurrentAction.id]
              others == \A x \in (DOMAIN store) \ {m} :
                          x \in DOMAIN store' /\ store'[x] = store[x]
          IN /\ CurrentAction.action = DELETE =>
                  m \notin DOMAIN store' /\ others
             /\ (CurrentAction.action = UPDATE /\ kind = "tb") =>
                  store'[m].content = CurrentAction.text /\ others
             /\ (CurrentAction.action = UPDATE /\ kind = "rxdb") =>
                  /\ store' = store
                  /\ \E w \in pendingWrites' :
                       w.id = m /\ w.content = CurrentAction.text]_vars

\* one record, retrieved for two different facts, updated through its first
\* temporary identifier and deleted through its second
C5_Witness ==
  /\ pc = "returned"
  /\ Len(newRetrievedFacts) = 2
  /\ newRetrievedFacts[1] # newRetrievedFacts[2]
  /\ Len(actions) = 2
  /\ actions[1].action = UPDATE /\ actions[2].action = DELETE
  /\ Len(returnedMemories) = 1
  /\ LET slots == Slots
     IN \E i, j \in 1..Len(slots) :
          /\ slots[i].fact = 1 /\ slots[j].fact = 2
          /\ slots[i].id = slots[j].id
          /\ actions[1].id = String(i - 1)
          /\ actions[2].id = String(j - 1)
          /\ returnedMemories[1].id = slots[i].id
          /\ slots[i].id \notin DOMAIN store

\* ---------------------------------------------------------------- C6
\* C6: after the remapping step the map has exactly the keys 0..k-1, k the
\* sum of the per-fact search result counts, and key i maps to the persisted
\* id of the i-th record of the concatenated per-fact results, duplicates
\* included.
C6_DenseMapInCandidateOrder ==
  AfterRemap =>
    LET all == Flatten(existingMemories)
    IN /\ Len(existingMemories) = Len(newRetrievedFacts)
       /\ DOMAIN tempIdMappings = {String(i - 1) : i \in 1..Len(all)}
       /\ Cardinality(DOMAIN tempIdMappings) = Len(all)
       /\ \A i \in 1..Len(all) : tempIdMappings[String(i - 1)] = all[i].id

\* two facts, each with two search results, so four temporary identifiers
\* over two records
C6_Witness ==
  /\ AfterRemap
  /\ Len(existingMemories) = 2
  /\ Len(existingMemories[1]) = 2
  /\ Len(existingMemories[2]) = 2
  /\ existingMemories[1][1].id # existingMemories[1][2].id
  /\ DOMAIN tempIdMappings = {"0", "1", "2", "3"}

\* ---------------------------------------------------------------- C8
Injective(f) == \A x, y \in DOMAIN f : f[x] = f[y] => x = y

\* C8 as stated: the map is a bijection from [0, k) to persisted ids: total
\* on the dense range, and distinct temporary ids map to distinct records.
C8_Bijection ==
  AfterRemap =>
    /\ DOMAIN tempIdMappings = {String(i - 1) : i \in 1..Len(retrievedOldMemory)}
    /\ Injective(tempIdMappings)

\* C8 amended: the map is a total function from the dense range [0, k) onto
\* the persisted ids of the retrieved records; two temporary ids map to the
\* same persisted id exactly when they are slots of one record retrieved for
\* two different facts, so the map is injective exactly when no record was
\* retrieved for more than one fact.
C8_TotalOntoRetrieved ==
  AfterRemap =>
    LET slots == Slots
        twice == \E i, j \in 1..Len(slots) :
                   slots[i].id = slots[j].id /\ slots[i].fact # slots[j].fact
    IN /\ DOMAIN tempIdMappings = {String(i - 1) : i \in 1..Len(slots)}
       /\ Range(tempIdMappings) = {slots[i].id : i \in 1..Len(slots)}
       /\ \A i, j \in 1..Len(slots) :
            (i # j /\ tempIdMappings[String(i - 1)] = tempIdMappings[String(j - 1)])
              => (slots[i].id = slots[j].id /\ slots[i].fact # slots[j].fact)
       /\ Injective(tempIdMappings) <=> ~twice

\* a map over three slots that is not injective
C8_Witness ==
  /\ AfterRemap
  /\ Len(Slots) >= 3
  /\ ~Injective(tempIdMappings)
  /\ Cardinality(Range(tempIdMappings)) >= 2

\* ---------------------------------------------------------------- C9
\* the step applies an ADD action
AddApplied ==
  /\ pc = "apply"
  /\ CurrentAction.action = ADD
  /\ actionIdx' = actionIdx + 1

\* C9: every applied ADD action increases the record count by exactly one
\* and leaves the records stored before it unchanged.
C9_AddGrowsByOne ==
  [][AddApplied =>
       /\ Cardinality(DOMAIN store') = Cardinality(DOMAIN store) + 1
       /\ \A x \in DOMAIN store : x \in DOMAIN store' /\ store'[x] = store[x]]_vars

\* --------------------------------------------------------------- C10
\* C10: the identifier an ADD assigns is one no stored record has, and the
\* ADD replaces no stored record's identifier or content.
C10_AddAssignsFreshId ==
  [][AddApplied =>
       LET created == returnedMemories'[Len(returnedMemories')]
       IN /\ created.id \notin DOMAIN store
          /\ \A x \in DOMAIN store :
               /\ x \in DOMAIN store'
               /\ store'[x].id = store[x].id
               /\ store'[x].content = store[x].content]_vars

\* --------------------------------------------------------------- C11
\* the current action is a DELETE whose reference is mapped, to a record the
\* store no longer holds
DeleteOfRemoved ==
  /\ pc = "apply"
  /\ CurrentAction.action = DELETE
  /\ CurrentAction.id \in DOMAIN tempIdMappings
  /\ tempIdMappings[CurrentAction.id] \notin DOMAIN store

\* C11: a DELETE whose mapped record is no longer stored raises no error of
\* its own (add() raises at it only if the storage call itself fails, which
\* the in-memory store never does), leaves the store unchanged and returns
\* nothing for it, and the loop goes on with the next action.
C11_DeleteOfRemovedIsNoOp ==
  [][(DeleteOfRemoved /\ AddStep) =>
       /\ store' = store
       /\ pendingWrites' = pendingWrites
       /\ returnedMemories' = returnedMemories
       /\ pc' = "raised" => (kind = "rxdb" /\ error' = "collaborator")
       /\ pc' # "raised" =>
            /\ actionIdx' = actionIdx + 1
            /\ pc' = IF actionIdx = Len(actions) THEN "returned" ELSE "apply"]_vars

\* a record deleted through one temporary id and again through its second
\* one, and the ADD behind the two applied
C11_Witness ==
  /\ pc = "returned"
  /\ Len(actions) = 3
  /\ actions[1].action = DELETE /\ actions[2].action = DELETE
  /\ actions[1].id \in DOMAIN tempIdMappings
  /\ actions[2].id \in DOMAIN tempIdMappings
  /\ actions[1].id # actions[2].id
  /\ tempIdMappings[actions[1].id] = tempIdMappings[actions[2].id]
  /\ tempIdMappings[actions[1].id] \notin DOMAIN store
  /\ actions[3].action = ADD
  /\ Len(returnedMemories) = 1
  /\ returnedMemories[1].content = actions[3].text
  /\ returnedMemories[1].id \in DOMAIN store

\* --------------------------------------------------------------- C12
\* the current action is a DELETE whose reference this call never issued
UnissuedDelete ==
  /\ pc = "apply"
  /\ CurrentAction.action = DELETE
  /\ CurrentAction.id \notin DOMAIN tempIdMappings

\* C12: a DELETE whose reference is no temporary identifier of this call
\* makes add() raise; it removes no record and the loop stops at it.
C12_UnissuedDeleteRaises ==
  [][(UnissuedDelete /\ AddStep) =>
       /\ pc' = "raised"
       /\ raisedAt' = "apply"
       /\ store' = store
       /\ actionIdx' = actionIdx]_vars

\* --------------------------------------------------------------- C13
\* the current action is an UPDATE whose reference is mapped, to a record the
\* store no longer holds
UpdateOfRemoved ==
  /\ pc = "apply"
  /\ CurrentAction.action = UPDATE
  /\ CurrentAction.id \in DOMAIN tempIdMappings
  /\ tempIdMappings[CurrentAction.id] \notin DOMAIN store

\* C13: an UPDATE whose mapped record has been removed makes add() raise,
\* with "Memory not found" unless a collaborator call failed first; nothing
\* is written or queued, so the record is not recreated, and after the raise
\* the set of stored records stays as the earlier DELETE left it.
C13_UpdateOfRemovedRaises ==
  /\ [][(UpdateOfRemoved /\ AddStep) =>
          /\ pc' = "raised"
          /\ raisedAt' = "apply"
          /\ error' # "collaborator" => error' = "Memory not found"
          /\ store' = store
          /\ pendingWrites' = pendingWrites
          /\ returnedMemories' = returnedMemories]_vars
  /\ [][(pc = "raised" /\ pc' = "raised") => DOMAIN store' = DOMAIN store]_vars

\* a record deleted through its first temporary id and then updated through
\* its second one: not found, and the record is still gone
C13_Witness ==
  /\ pc = "raised" /\ raisedAt = "apply"
  /\ error = "Memory not found"
  /\ actionIdx = 2
  /\ actions[1].action = DELETE /\ actions[2].action = UPDATE
  /\ actions[1].id \in DOMAIN tempIdMappings
  /\ actions[2].id \in DOMAIN tempIdMappings
  /\ actions[1].id # actions[2].id
  /\ tempIdMappings[actions[1].id] = tempIdMappings[actions[2].id]
  /\ tempIdMappings[actions[2].id] \notin DOMAIN store
  /\ pendingWrites = {}
  /\ returnedMemories = <<>>

\* --------------------------------------------------------------- C14
\* add() has returned from a list of two actions on one record, and no write
\* is in flight any more
TwoActionsOnOneRecordDone(first, second) ==
  /\ pc = "returned"
  /\ pendingWrites = {}
  /\ Len(actions) = 2
  /\ actions[1].action = first /\ actions[2].action = second
  /\ actions[1].id \in DOMAIN tempIdMappings
  /\ actions[2].id \in DOMAIN tempIdMappings
  /\ tempIdMappings[actions[1].id] = tempIdMappings[actions[2].id]

\* C14: two actions of one call on the same record take effect in list
\* order: after two UPDATEs the record's content is the text of the later
\* one, and after an UPDATE followed by a DELETE the record is absent.
C14_SameRecordInListOrder ==
  /\ TwoActionsOnOneRecordDone(UPDATE, UPDATE) =>
       LET m == tempIdMappings[actions[2].id]
       IN m \in DOMAIN store /\ store[m].content = actions[2].text
  /\ TwoActionsOnOneRecordDone(UPDATE, DELETE) =>
       tempIdMappings[actions[2].id] \notin DOMAIN store

\* --------------------------------------------------------------- C15
\* add() has returned from a list whose only action is an UPDATE
SoleUpdateReturned ==
  /\ pc = "returned"
  /\ Len(actions) = 1
  /\ actions[1].action = UPDATE
  /\ actions[1].id \in DOMAIN tempIdMappings

\* C15: once add() has applied an UPDATE with reference i and text t, the
\* stored record that i maps to has content t, the embedding of t and an
\* updatedAt, and, the UPDATE being the only action, add() returns exactly
\* that one record.
C15_UpdateIsInStoreOnReturn ==
  SoleUpdateReturned =>
    LET m == tempIdMappings[actions[1].id]
        t == actions[1].text
    IN /\ Len(returnedMemories) = 1
       /\ returnedMemories[1].id = m
       /\ m \in DOMAIN store
       /\ store[m].content = t
       /\ store[m].embedding = ResolveEmbedding(newMessageEmbeddings, t)
       /\ "updatedAt" \in DOMAIN store[m]
       /\ store[m].updatedAt # undefined

\* --------------------------------------------------------------- C16
\* C16: the record add() returns for an UPDATE is the record as the store
\* holds it after the update: it carries the original createdAt and the
\* updatedAt the update wrote, and the stored id, content and metadata.
C16_ReturnedIsStoredRecord ==
  (SoleUpdateReturned /\ pendingWrites = {}) =>
    LET m == tempIdMappings[actions[1].id]
        r == returnedMemories[1]
    IN /\ m \in DOMAIN store
       /\ r.id = m
       /\ r.content = store[m].content
       /\ "createdAt" \in DOMAIN r
       /\ "updatedAt" \in DOMAIN r
       /\ r.createdAt = store[m].createdAt
       /\ r.updatedAt = store[m].updatedAt
       /\ r.metadata = store[m].metadata

\* --------------------------------------------------------------- C17
\* the ADD and UPDATE actions of a list, in list order
Producing(list) ==
  LET produces(a) == a.action \in {ADD, UPDATE}
  IN SelectSeq(list, produces)

\* C17: what add() has accumulated, and returns when it completes, holds
\* one entry per applied ADD and per applied UPDATE, in the order of those
\* actions in the list (the entry carries the action's text, and for an
\* UPDATE the persisted id its reference maps to), and nothing for a DELETE
\* or a NONE.
C17_OneEntryPerAddOrUpdate ==
  pc \in {"apply", "returned"} =>
    LET producing == Producing(SubSeq(actions, 1, actionIdx - 1))
    IN /\ Len(returnedMemories) = Len(producing)
       /\ \A k \in 1..Len(producing) :
            /\ returnedMemories[k].content = producing[k].text
            /\ producing[k].action = UPDATE =>
                 returnedMemories[k].id = tempIdMappings[producing[k].id]

\* add() returned from an UPDATE, a DELETE or NONE, and an ADD: two entries,
\* the updated record first
C17_Witness ==
  /\ pc = "returned"
  /\ Len(actions) = 3
  /\ actions[1].action = UPDATE /\ actions[1].text = "a"
  /\ actions[2].action \in {DELETE, NONE}
  /\ actions[3].action = ADD /\ actions[3].text = "c"
  /\ Len(returnedMemories) = 2
  /\ returnedMemories[1].id = tempIdMappings[actions[1].id]
  /\ returnedMemories[1].content = "a"
  /\ returnedMemories[2].content = "c"

\* --------------------------------------------------------------- C18
\* the distance of a record from the embedding searched for
Distance(r) == euclideanDistance(searchQuery, r.embedding)

\* C18: search returns its results by decreasing relevance: of any two
\* returned records, the one with the smaller distance to the query comes
\* first.
C18_SearchClosestFirst ==
  \A i, j \in 1..Len(searchResults) :
    Distance(searchResults[i]) < Distance(searchResults[j]) => i < j

\* a search of the RxDB store that returned records at different distances
C18_Witness ==
  /\ kind = "rxdb"
  /\ Len(searchResults) >= 3
  /\ Distance(searchResults[1]) < Distance(searchResults[Len(searchResults)])

\* --------------------------------------------------------------- C19
\* the stored records search may return: within the threshold for RxDbVector
Searchable ==
  {id \in DOMAIN store :
     kind = "rxdb" => Distance(store[id]) <= threshold}

\* C19: search returns min(topK, number of records within the threshold)
\* distinct records, all within the threshold, and they are the closest: no
\* record left out is strictly closer to the query than one returned.
C19_SearchKeepsClosest ==
  searchQuery # <<>> =>
    LET returned == {searchResults[i].id : i \in 1..Len(searchResults)}
        k == IF kind = "rxdb" THEN topK ELSE tbTopK
    IN /\ returned \subseteq Searchable
       /\ Cardinality(returned) = Len(searchResults)
       /\ Len(searchResults) = Min(k, Cardinality(Searchable))
       /\ \A x \in Searchable \ returned : \A y \in returned :
            ~(Distance(store[x]) < Distance(store[y]))

\* more than topK records within the threshold, at two distances: topK are
\* returned, the nearest among them, and a farther one is left out
C19_Witness ==
  /\ kind = "rxdb"
  /\ searchQuery # <<>>
  /\ Cardinality(Searchable) > topK
  /\ Len(searchResults) = topK
  /\ Distance(searchResults[1]) = 0
  /\ \E x \in Searchable :
       /\ Distance(store[x]) = 1
       /\ \A i \in 1..Len(searchResults) : searchResults[i].id # x

\* --------------------------------------------------------------- C20
\* C20: list pages come in ascending id order with at most limit records,
\* and the successive pages, each fetched with the cursor taken from the
\* last record of the page before, visit no stored record twice.
C20_ListPagesVisitOnce ==
  LET visited == Flatten(listPages)
  IN /\ \A p \in 1..Len(listPages) :
          /\ listLimit > 0 => Len(listPages[p]) <= listLimit
          /\ \A i, j \in 1..Len(listPages[p]) :
               i < j => listPages[p][i].id < listPages[p][j].id
     /\ \A i, j \in 1..Len(visited) : i # j => visited[i].id # visited[j].id

\* --------------------------------------------------------------- C21
\* C21: update never reports success for a write that did not take effect:
\* every write of an update that returned successfully is, once it is no
\* longer in flight, in the store: the record exists with the content, the
\* embedding and the metadata the update was given, also when a delete of
\* the same identifier ran after the update returned.
C21_ReportedUpdateTookEffect ==
  [][\A w \in pendingWrites \ pendingWrites' :
       /\ w.id \in DOMAIN store'
       /\ store'[w.id].content = w.content
       /\ store'[w.id].embedding = w.embedding
       /\ store'[w.id].metadata = w.metadata]_vars

\* --------------------------------------------------------------- C22
\* C22: MemoryStore.search and MemoryStore.list never mutate the store: a
\* step that produces search results or a page of a listing leaves the
\* records, the writes in flight and the issued identifiers as they were;
\* and what search returns is exactly what the store's search returns for
\* the embedding of the content searched for.
QueryStep == queryVars' # queryVars

C22_QueriesDoNotMutate ==
  [][QueryStep =>
       /\ UNCHANGED <<store, pendingWrites, issued, initialized>>
       /\ (<<searchQuery, searchResults>>' # <<searchQuery, searchResults>> =>
             /\ \E content \in Texts : searchQuery' = embed(content)
             /\ searchResults' = VectorStore_search(kind, store', searchQuery'))]_vars

\* a search has returned records and a listing has gone on to a second page
C22_Witness ==
  /\ searchResults # <<>>
  /\ Len(listPages) >= 2
  /\ store # EmptyStore

\* --------------------------------------------------------------- C23
\* an ADD or UPDATE action is applied by this step
AddOrUpdateApplied ==
  /\ pc = "apply"
  /\ actions[actionIdx].action \in {ADD, UPDATE}
  /\ actionIdx' = actionIdx + 1

\* C23: while an ADD or UPDATE action is applied, the Embedding Provider is
\* called for the action's text if and only if that text is not equal to a
\* fact embedded earlier in the same call; when it is equal, the embedding
\* stored is the one that was computed for that fact.
C23_EmbedsIffTextIsNoFact ==
  [][AddOrUpdateApplied =>
       LET text == actions[actionIdx].text
           isFact == text \in Range(newRetrievedFacts)
           stored == returnedMemories'[Len(returnedMemories')]
       IN /\ (embedCalls' # embedCalls) <=> ~isFact
          /\ isFact => stored.embedding = newMessageEmbeddings[text]]_vars

\* --------------------------------------------------------------- C24
\* the step changes at most the record m, and of m neither the identifier
\* nor createdAt; the store holds the same records before and after
OnlyRecordChanged(m) ==
  /\ DOMAIN store' = DOMAIN store
  /\ \A x \in DOMAIN store :
       /\ x # m => store'[x] = store[x]
       /\ store'[x].id = store[x].id
       /\ "createdAt" \in DOMAIN store[x] =>
            /\ "createdAt" \in DOMAIN store'[x]
            /\ store'[x].createdAt = store[x].createdAt

\* C24: an applied UPDATE changes only the content, embedding, metadata and
\* updatedAt of its target: when add() applies it, and when the write it
\* started reaches the storage, the target keeps its id and its createdAt,
\* the number of records stays the same and every other record is unchanged.
C24_UpdateTouchesOnlyItsTarget ==
  [][/\ (pc = "apply" /\ CurrentAction.action = UPDATE
           /\ actionIdx' = actionIdx + 1) =>
          OnlyRecordChanged(tempIdMappings[CurrentAction.id])
     /\ \A w \in pendingWrites \ pendingWrites' : OnlyRecordChanged(w.id)]_vars

\* an UPDATE has changed the content of one of two stored records: in the
\* RxDB store the write has landed, in the other store it is done at once
C24_Witness ==
  /\ SoleUpdateReturned
  /\ pendingWrites = {}
  /\ Cardinality(DOMAIN store) = 2
  /\ LET m == tempIdMappings[actions[1].id]
     IN /\ m \in DOMAIN store
        /\ store[m].content = "c"
        /\ kind = "rxdb" => store[m].updatedAt # undefined
        /\ \E x \in DOMAIN store : x # m /\ store[x].content # "c"

\* --------------------------------------------------------------- C25
\* C25: a NONE action changes nothing: not the store, not the result list,
\* not the map of temporary identifiers. An applied DELETE removes exactly
\* the record its reference maps to and leaves every other record and the
\* result list unchanged.
C25_NoneAndDeleteFrame ==
  [][/\ (pc = "apply" /\ CurrentAction.action = NONE /\ AddStep) =>
          /\ UNCHANGED <<store, pendingWrites, issued, returnedMemories,
                         tempIdMappings>>
          /\ pc' # "raised"
     /\ (pc = "apply" /\ CurrentAction.action = DELETE
           /\ actionIdx' = actionIdx + 1
           /\ CurrentAction.id \in DOMAIN tempIdMappings) =>
          LET m == tempIdMappings[CurrentAction.id]
          IN /\ DOMAIN store' = DOMAIN store \ {m}
             /\ \A x \in DOMAIN store' : store'[x] = store[x]
             /\ UNCHANGED <<returnedMemories, tempIdMappings>>]_vars

\* add() has returned after a NONE and a DELETE that took one of two
\* records out of the store
C25_Witness ==
  /\ pc = "returned"
  /\ Len(actions) = 2
  /\ actions[1].action = NONE
  /\ actions[2].action = DELETE
  /\ actions[2].id \in DOMAIN tempIdMappings
  /\ tempIdMappings[actions[2].id] \notin DOMAIN store
  /\ Cardinality(DOMAIN store) = 1
  /\ returnedMemories = <<>>

\* --------------------------------------------------------------- C26
\* the records the UPDATE actions applied so far by the running call have
\* updated successfully
UpdatedTargets ==
  {tempIdMappings[actions[i].id] :
     i \in {j \in 1..(actionIdx - 1) : actions[j].action = UPDATE}}

\* C26: in every state of the RxDB store, every record has a createdAt, and
\* a record has its updatedAt set if and only if it has been the target of
\* a successful update since it was created (here: of an UPDATE the call
\* has applied, the records having never been updated before the call).
C26_UpdatedAtIffUpdated ==
  (kind = "rxdb" /\ pc \in {"apply", "returned"}) =>
    \A x \in DOMAIN store :
      /\ store[x].createdAt # undefined
      /\ store[x].updatedAt # undefined <=> x \in UpdatedTargets

\* --------------------------------------------------------------- C27
\* C27: the candidate list handed to the Decision Service has, at position
\* i (counted from 0), the identifier String(i) and the content of the i-th
\* record the searches returned, whatever identifier that record is stored
\* under; the searches' results and the stored records keep their own
\* identifiers when the candidates' identifiers are replaced.
C27_CandidatesCarryPositions ==
  /\ [](AfterRemap =>
          LET found == Flatten(existingMemories)
          IN /\ Len(retrievedOldMemory) = Len(found)
             /\ \A i \in 1..Len(found) :
                  /\ retrievedOldMemory[i].id = String(i - 1)
                  /\ retrievedOldMemory[i].content = found[i].content
                  /\ found[i].id = tempIdMappings[String(i - 1)]
                  /\ found[i].id \in DOMAIN store =>
                       store[found[i].id].id = found[i].id)
  /\ [][(pc = "facts" /\ pc' = "decide") =>
          UNCHANGED <<existingMemories, store>>]_vars

\* two candidates are handed over, the first stored under an identifier that
\* is not the first of the store
C27_Witness ==
  /\ pc = "decide"
  /\ Len(retrievedOldMemory) = 2
  /\ retrievedOldMemory[1].id = "0"
  /\ retrievedOldMemory[2].id = "1"
  /\ \E x \in DOMAIN store : x < tempIdMappings["0"]

\* --------------------------------------------------------------- C28
\* C28: ADD and NONE actions do not use their reference. Whether the
\* reference is absent, names no candidate or names one, the action never
\* makes add() raise a reference-not-found error and never aborts the call:
\* the response is accepted, a NONE is skipped, an ADD stores its text, and
\* the only way an ADD fails is a failing collaborator (or a store that was
\* not initialised).
C28_AddAndNoneIgnoreReference ==
  [][/\ (pc = "decide" /\ pc' = "raised") => error' = "collaborator"
     /\ (pc = "apply" /\ CurrentAction.action \in {ADD, NONE} /\ AddStep) =>
          /\ error' \in {"", "collaborator", "not initialized"}
          /\ pc' # "raised" =>
               /\ actionIdx' = actionIdx + 1
               /\ CurrentAction.action = ADD =>
                    /\ Len(returnedMemories') = Len(returnedMemories) + 1
                    /\ returnedMemories'[Len(returnedMemories')].content =
                         CurrentAction.text
               /\ CurrentAction.action = NONE =>
                    returnedMemories' = returnedMemories]_vars

\* --------------------------------------------------------------- C29
\* C29: given that every collaborator call returns or fails, add()
\* terminates. The loop takes the actions in list order, each at most once:
\* a step of the loop either applies the action at actionIdx and moves to
\* the next one, returning after the last, or raises at that action and
\* applies nothing after it; and every call that has started returns or
\* raises.
C29_AddTerminates ==
  /\ [][(pc = "apply" /\ AddStep) =>
          /\ actions' = actions
          /\ \/ /\ actionIdx' = actionIdx + 1
                /\ pc' = IF actionIdx = Len(actions) THEN "returned" ELSE "apply"
             \/ /\ actionIdx' = actionIdx
                /\ pc' = "raised"]_vars
  /\ [][(pc \in {"returned", "raised"} /\ AddStep) => pc' = "extract"]_vars
  /\ (pc = "extract") ~> (pc \in {"returned", "raised"})

\* add() has returned after the second of two actions, having applied both
C29_Witness ==
  /\ pc = "returned"
  /\ Len(actions) = 2
  /\ actionIdx = 3
  /\ actions[1].action = ADD
  /\ actions[2].action = UPDATE
  /\ Len(returnedMemories) = 2

\* --------------------------------------------------------------- C30
\* the metadata the store reports for the record m
MetadataOf(m) == {r.metadata : r \in VectorStore_get(kind, store, m)}

\* C30: an UPDATE applied by add() replaces the metadata of its target with
\* the empty map, whatever the record held: the record add() returns for
\* the UPDATE and the write it starts carry the empty map, the write leaves
\* the empty map in the record when it lands, and once no write is in
\* flight every record the call has updated and that is still stored
\* reports the empty map.
C30_UpdateEmptiesMetadata ==
  /\ [][(pc = "apply" /\ CurrentAction.action = UPDATE
           /\ actionIdx' = actionIdx + 1) =>
          /\ returnedMemories'[Len(returnedMemories')].metadata = EmptyMetadata
          /\ \A w \in pendingWrites' \ pendingWrites : w.metadata = EmptyMetadata]_vars
  /\ [][\A w \in pendingWrites \ pendingWrites' :
          (w.id \in DOMAIN store' /\ store'[w.id].rev # store[w.id].rev) =>
            store'[w.id].metadata = EmptyMetadata]_vars
  /\ []((pendingWrites = {} /\ pc \in {"apply", "returned"}) =>
          \A m \in UpdatedTargets : MetadataOf(m) \subseteq {EmptyMetadata})

\* the RxDB store held two records with metadata of their own; the one the
\* call has updated holds the empty map now, the other still holds its own
C30_Witness ==
  /\ kind = "rxdb"
  /\ SoleUpdateReturned
  /\ pendingWrites = {}
  /\ LET m == tempIdMappings[actions[1].id]
     IN /\ m \in DOMAIN store
        /\ store[m].updatedAt # undefined
        /\ store[m].metadata = EmptyMetadata
        /\ \E x \in DOMAIN store : store[x].metadata = ImportedMetadata

\* --------------------------------------------------------------- C31
\* C31: after any sequence of add() calls, every record add() has created
\* or updated has the Embedding Provider's embedding of its current
\* content: so has every stored record, and so has every record add()
\* returns, whether the embedding came from the embeddings of the call's
\* facts or from the provider, and whatever the action's text.
C31_EmbeddingIsOfContent ==
  /\ \A x \in DOMAIN store : store[x].embedding = embed(store[x].content)
  /\ \A i \in 1..Len(returnedMemories) :
       returnedMemories[i].embedding = embed(returnedMemories[i].content)

\* --------------------------------------------------------------- C32
\* a client's call of a store operation has completed in this step
OperationStep == <<opCalled, opError>>' # <<opCalled, opError>>

\* C32: every get, add, update, delete, search and list called before the
\* store's initialisation has completed fails with the not-initialised
\* error and mutates nothing; once initialisation has completed, no
\* operation fails with that error.
C32_GuardedUntilInitialized ==
  /\ [][~initialized => UNCHANGED <<store, pendingWrites, issued>>]_vars
  /\ [][OperationStep =>
          /\ ~initialized => opError' = NotInitialized
          /\ initialized => opError' # NotInitialized]_vars

\* --------------------------------------------------------------- C33
\* C33: refreshMemories retries memory.list 500 ms after each failure and
\* stops retrying after the first success. A chain has at most one retry
\* timer pending, and has one exactly while it waits for its retry; a
\* failed list sets the timer 500 ms ahead and the retry does not start
\* before the timer is due; a chain that has loaded the list never lists or
\* sets a timer again; and once the store's initialisation has completed,
\* every chain that was started loads the list.
C33_RefreshRetriesUntilLoaded ==
  /\ [](\A c \in Chains :
          /\ Len(timers[c]) <= 1
          /\ Len(timers[c]) = 1 <=> refreshPc[c] = "waiting")
  /\ [][\A c \in Chains :
          /\ (refreshPc[c] = "listing" /\ refreshPc'[c] = "waiting") =>
               /\ ~initialized
               /\ timers'[c] = <<uiNow + retryDelay>>
          /\ (refreshPc[c] = "waiting" /\ refreshPc'[c] # "waiting") =>
               /\ refreshPc'[c] = "listing"
               /\ uiNow >= timers[c][1]
          /\ refreshPc[c] = "done" =>
               /\ refreshPc'[c] = "done"
               /\ timers'[c] = <<>>]_vars
  /\ \A c \in Chains :
       (refreshPc[c] # "none" /\ initialized) ~> (refreshPc[c] = "done")

\* one chain has failed before the store was initialised and waits for its
\* retry, which is not due yet; another has loaded the records of the store
C33_Witness ==
  /\ initialized
  /\ refreshPc[1] = "waiting"
  /\ timers[1][1] > uiNow
  /\ refreshPc[2] = "done"
  /\ memories # <<>>

\* --------------------------------------------------------------- C34
\* C34: MemoryStore.list({offset, limit}) hands its argument to the store's
\* list, which reads only cursor and limit: whatever the offset, the result
\* is the stored records in ascending id order from the first one on, all
\* of them when the limit is 0 and the first limit of them otherwise.
C34_ListIgnoresOffset ==
  [][listProps' # listProps =>
       LET ids == SetToSortedSeq(DOMAIN store)
           limit == listProps'.limit
           page == listPages'[1]
       IN /\ Len(listPages') = 1
          /\ Len(page) = IF limit = 0 THEN Len(ids) ELSE Min(limit, Len(ids))
          /\ \A i \in 1..Len(page) : page[i].id = ids[i]]_vars

\* list was called with an offset and the limit 0 on a store of more
\* records than any limit asks for, and has returned all of them
C34_Witness ==
  /\ listProps # NoProps
  /\ listProps.offset > 0
  /\ listProps.limit = 0
  /\ listLimit = 0
  /\ Len(listPages) = 1
  /\ Len(listPages[1]) = Cardinality(DOMAIN store)
  /\ Cardinality(DOMAIN store) > MaxLimit

====
